---- MODULE Spec2Model ----
(***************************************************************************)
(* A model of the RText buffer engine: Row (row.rs), FileType              *)
(* (filetype.rs) and Document (document.rs).                               *)
(*                                                                         *)
(* A Rust String is modelled as the sequence of its chars (code points);   *)
(* byte offsets are computed from the UTF-8 width of each char, and        *)
(* grapheme clusters from the extended-grapheme-cluster break rules that   *)
(* apply to the chars of the model's alphabet.                             *)
(***************************************************************************)
EXTENDS Integers, Sequences, FiniteSets, TLC

VARIABLES
    rows,        \* Document.rows: sequence of Row
    file_name,   \* Document.file_name: NoName or a file name
    dirty,       \* Document.dirty
    file_type,   \* Document.file_type
    written,     \* the bytes of the file the last operation wrote or read, or NoFile
    last,        \* the last Document operation and its outcome
    row,         \* a Row under test (Row-level operations)
    other,       \* the Row returned by the last Row.split
    row0,        \* the Row as it was before the recorded calls
    hist,        \* the recorded Row calls since row0, oldest first
    query,       \* the query of a search
    found,       \* the searches run so far, one per direction
    first,       \* the first of two recorded Document calls, or NoCall
    editor,      \* the Editor: should_quit, cursor_position, quit_times, the
                 \* terminal's height and the search prompt it is in
    quits,       \* how many Ctrl-Q presses in a row the key dispatch has just seen
    loop         \* a call of Row::highlight under way: its position and its locals

vars == <<rows, file_name, dirty, file_type, written, last,
          row, other, row0, hist, query, found, first, editor, quits,
          loop>>

docVars == <<rows, file_name, dirty, file_type, written, last>>
rowVars == <<row, other, row0, hist>>
findVars == <<query, found, first>>
editorVars == <<editor, quits>>

-----------------------------------------------------------------------------
(* Bounds of the model *)

MaxRows == 2        \* rows a document may grow to
MaxChars == 2       \* chars a document (or a row under test) may grow to
MaxPos == 2         \* largest coordinate passed to an operation

-----------------------------------------------------------------------------
(* Characters *)

LF == "LF"          \* '\n'
CR == "CR"          \* '\r'
TAB == "TAB"        \* '\t'
ACUTE == "ACUTE"    \* U+0301 COMBINING ACUTE ACCENT (Grapheme_Extend)

\* char::is_ascii_digit
IsAsciiDigit(c) == c \in {"0", "1", "2", "3", "4", "5", "6", "7", "8", "9"}

\* char::is_ascii_punctuation (the punctuation the model uses)
IsAsciiPunctuation(c) == c \in {".", "(", ")", "{", "}", ",", ";"}

\* char::is_ascii_whitespace
IsAsciiWhitespace(c) == c \in {" ", LF, CR, TAB}

\* Grapheme_Cluster_Break = Control, CR or LF
IsControl(c) == c \in {LF, CR, TAB}

\* Grapheme_Cluster_Break = Extend
IsExtend(c) == c = ACUTE

\* the number of bytes of the UTF-8 encoding of c
Utf8Len(c) == IF c = ACUTE THEN 2 ELSE 1

-----------------------------------------------------------------------------
(* Sequences *)

None == -1          \* Option::None of an Option<usize>

Min(S) == CHOOSE m \in S : \A n \in S : m <= n
Max(S) == CHOOSE m \in S : \A n \in S : n <= m

\* Iterator::skip(n)
Skip(s, n) == IF n >= Len(s) THEN <<>> ELSE SubSeq(s, n + 1, Len(s))

\* Iterator::take(n)
Take(s, n) == IF n >= Len(s) THEN s ELSE SubSeq(s, 1, n)

RECURSIVE Concat(_)
\* the concatenation of a sequence of strings (collect::<String>())
Concat(ss) == IF ss = <<>> THEN <<>> ELSE Head(ss) \o Concat(Tail(ss))

RECURSIVE ByteLen(_)
\* str::len: the length of s in bytes
ByteLen(s) == IF s = <<>> THEN 0 ELSE Utf8Len(Head(s)) + ByteLen(Tail(s))

\* the 0-based char positions at which q occurs in s
Occurrences(s, q) ==
    {i \in 0..(Len(s) - Len(q)) : SubSeq(s, i + 1, i + Len(q)) = q}

\* str::find: the byte index of the first occurrence of q in s
StrFind(s, q) ==
    IF Occurrences(s, q) = {} THEN None
    ELSE ByteLen(Take(s, Min(Occurrences(s, q))))

\* str::rfind: the byte index of the last occurrence of q in s
StrRFind(s, q) ==
    IF Occurrences(s, q) = {} THEN None
    ELSE ByteLen(Take(s, Max(Occurrences(s, q))))

\* str::ends_with
EndsWith(s, suffix) ==
    /\ Len(suffix) <= Len(s)
    /\ SubSeq(s, Len(s) - Len(suffix) + 1, Len(s)) = suffix

-----------------------------------------------------------------------------
(* Grapheme clusters: UnicodeSegmentation::graphemes(true) *)

\* is there a cluster boundary between the adjacent chars p and c
BreakBetween(p, c) ==
    IF p = CR /\ c = LF THEN FALSE            \* GB3
    ELSE IF IsControl(p) \/ IsControl(c) THEN TRUE   \* GB4, GB5
    ELSE ~IsExtend(c)                          \* GB9, GB999

RECURSIVE GraphemesFrom(_, _)
\* the clusters of s, given the clusters acc of the chars before it
GraphemesFrom(acc, s) ==
    IF s = <<>> THEN acc
    ELSE IF acc = <<>> THEN GraphemesFrom(<< <<Head(s)>> >>, Tail(s))
    ELSE LET cur == acc[Len(acc)]
         IN IF BreakBetween(cur[Len(cur)], Head(s))
            THEN GraphemesFrom(Append(acc, <<Head(s)>>), Tail(s))
            ELSE GraphemesFrom([acc EXCEPT ![Len(acc)] = Append(cur, Head(s))],
                               Tail(s))

\* the sequence of grapheme clusters of s, each a string
Graphemes(s) == GraphemesFrom(<<>>, s)

\* grapheme_indices: the byte index at which cluster g (0-based) of gs starts
GraphemeByteIndex(gs, g) == ByteLen(Concat(Take(gs, g)))

-----------------------------------------------------------------------------
(* FileType and HighLightingOptions (filetype.rs) *)

\* HighLightingOptions::default(): every flag false
DefaultHighLightingOptions ==
    [numbers |-> FALSE, strings |-> FALSE, characters |-> FALSE]

\* FileType::default()
DefaultFileType == [name |-> "No filetype", hl_opts |-> DefaultHighLightingOptions]

\* FileType::from(file_name)
FileTypeFrom(name) ==
    IF EndsWith(name, <<".", "r", "s">>)
    THEN [name |-> "Rust",
          hl_opts |-> [numbers |-> TRUE, strings |-> TRUE, characters |-> TRUE]]
    ELSE DefaultFileType

-----------------------------------------------------------------------------
(* Row (row.rs) *)

Forward == "Forward"
Backward == "Backward"

HlNone == "None"
HlNumber == "Number"
HlMatch == "Match"

NoWord == <<"NoWord">>  \* Option::None of the search word passed to highlight

\* Row::default()
RowDefault == [string |-> <<>>, len |-> 0, highlighting |-> <<>>]

\* Row::update_len applied to the string s
UpdateLen(s) == Len(Graphemes(s))

\* impl From<&str> for Row
RowFrom(s) == [string |-> s, len |-> UpdateLen(s), highlighting |-> <<>>]

\* Row::len
RowLen(r) == r.len

\* the push branch of Row::insert: the cached length after pushing a char
PushedLen(r) == r.len + 1

\* Row::insert
RowInsert(r, at, c) ==
    IF at >= RowLen(r)
    THEN [r EXCEPT !.string = Append(r.string, c), !.len = PushedLen(r)]
    ELSE LET gs == Graphemes(r.string)
         IN IF at < Len(gs)
            THEN [r EXCEPT !.string = Concat(Take(gs, at)) \o <<c>> \o Concat(Skip(gs, at)),
                           !.len = Len(gs) + 1]
            ELSE [r EXCEPT !.string = Concat(gs), !.len = Len(gs)]

\* a delete that removes the first grapheme whatever the index
RowDeleteFirst(r, at) ==
    IF at >= RowLen(r) THEN r
    ELSE LET gs == Graphemes(r.string)
         IN [r EXCEPT !.string = Concat(Skip(gs, 1)), !.len = Len(Skip(gs, 1))]

\* Row::delete
RowDelete(r, at) ==
    IF at >= RowLen(r) THEN r
    ELSE LET gs == Graphemes(r.string)
         IN IF at < Len(gs)
            THEN [r EXCEPT !.string = Concat(Take(gs, at)) \o Concat(Skip(gs, at + 1)),
                           !.len = Len(gs) - 1]
            ELSE [r EXCEPT !.string = Concat(gs), !.len = Len(gs)]

\* Row::append
RowAppend(r, new) ==
    [r EXCEPT !.string = r.string \o new.string,
              !.len = UpdateLen(r.string \o new.string)]

\* a split that keeps only the graphemes before index at
SplitKeptBefore(r, at) ==
    LET gs == Graphemes(r.string)
    IN [r EXCEPT !.string = Concat(Take(gs, at)),
                 !.len = Len(Take(gs, at))]

\* Row::split: the row kept in self
SplitKept(r, at) ==
    LET gs == Graphemes(r.string)
    IN [r EXCEPT !.string = Concat(Take(gs, at + 1)),
                 !.len = Len(Take(gs, at + 1))]

\* Row::split: the row returned
SplitReturned(r, at) ==
    LET gs == Graphemes(r.string)
    IN [string |-> Concat(Skip(gs, at + 1)),
        len |-> Len(Skip(gs, at + 1)),
        highlighting |-> <<>>]

\* the byte index str::rfind gives for the Backward direction
BackwardByteIndex(s, q) == StrRFind(s, q)

\* a search whose range starts at the anchor in both directions
FindStartAtAnchor(at, direction) == at

\* Row::find: the grapheme index the searched range starts at
FindStart(at, direction) == IF direction = Forward THEN at ELSE 0

\* Row::find
RowFind(r, q, at, direction) ==
    IF at > r.len \/ q = <<>> THEN None
    ELSE LET start == FindStart(at, direction)
             end == IF direction = Forward THEN r.len ELSE at
             substring == Concat(Take(Skip(Graphemes(r.string), start), end - start))
             matching_byte_index == IF direction = Forward
                                    THEN StrFind(substring, q)
                                    ELSE BackwardByteIndex(substring, q)
             gs == Graphemes(substring)
             hits == {g \in 0..(Len(gs) - 1) :
                         GraphemeByteIndex(gs, g) = matching_byte_index}
         IN IF matching_byte_index = None \/ hits = {} THEN None
            ELSE start + Min(hits)

RECURSIVE CollectMatches(_, _, _, _)
\* the first loop of Row::highlight: the match starts from search_index on
CollectMatches(r, word, search_index, matches) ==
    LET search_match == RowFind(r, word, search_index, Forward)
    IN IF search_match = None THEN matches
       ELSE CollectMatches(r, word, search_match + Len(Graphemes(word)),
                           matches \cup {search_match})

\* a classification that never takes a '.' into a number
LexicalTagDigitsOnly(opts, c, prev_is_separator, previous_highlight) ==
    IF opts.numbers
       /\ IsAsciiDigit(c) /\ (prev_is_separator \/ previous_highlight = HlNumber)
    THEN HlNumber
    ELSE HlNone

\* the tag Row::highlight gives a char outside a search match
LexicalTag(opts, c, prev_is_separator, previous_highlight) ==
    IF opts.numbers
       /\ ((IsAsciiDigit(c) /\ (prev_is_separator \/ previous_highlight = HlNumber))
           \/ (c = "." /\ previous_highlight = HlNumber))
    THEN HlNumber
    ELSE HlNone

RECURSIVE HighlightWalk(_, _, _, _, _, _, _)
\* the second loop of Row::highlight, from char index on
HighlightWalk(chars, opts, word, matches, index, prev_is_separator, highlighting) ==
    IF index >= Len(chars) THEN highlighting
    ELSE IF word # NoWord /\ index \in matches
    THEN HighlightWalk(chars, opts, word, matches,
                       index + Len(Graphemes(word)), prev_is_separator,
                       highlighting \o [i \in 1..Len(Graphemes(word)) |-> HlMatch])
    ELSE LET c == chars[index + 1]
             previous_highlight ==
                 IF index > 0 /\ index <= Len(highlighting)
                 THEN highlighting[index] ELSE HlNone
         IN HighlightWalk(chars, opts, word, matches, index + 1,
                          IsAsciiPunctuation(c) \/ IsAsciiWhitespace(c),
                          Append(highlighting,
                                 LexicalTag(opts, c, prev_is_separator,
                                            previous_highlight)))

\* the tag array Row::highlight computes
Highlighting(r, opts, word) ==
    HighlightWalk(r.string, opts, word,
                  IF word = NoWord THEN {} ELSE CollectMatches(r, word, 0, {}),
                  0, TRUE, <<>>)

\* Row::highlight
RowHighlight(r, opts, word) ==
    [r EXCEPT !.highlighting = Highlighting(r, opts, word)]

\* the locals of r.highlight(opts, word) as the call starts; `find` holds
\* what self.find(word, at, Forward) returns for each at <= len (the Row
\* does not change while it is classified) and word_len is
\* word.graphemes(true).count()
HighlightCalled(r, opts, word) ==
    [pc |-> "collect", opts |-> opts, search_index |-> 0, matches |-> {},
     index |-> 0, prev_is_separator |-> TRUE, highlighting |-> <<>>,
     find |-> [at \in 0..RowLen(r) |->
                  IF word = NoWord THEN None ELSE RowFind(r, word, at, Forward)],
     word_len |-> IF word = NoWord THEN 0 ELSE Len(Graphemes(word))]

\* no call of Row::highlight is under way
NoLoop ==
    [HighlightCalled(RowDefault, DefaultHighLightingOptions, NoWord)
       EXCEPT !.pc = "idle"]

IdleLoop == loop = NoLoop

\* a search index that stays on the match
SameSearchIndex(search_match, word_len) == search_match

\* the search index after a recorded match: search_match.checked_add(|word|)
NextSearchIndex(search_match, word_len) == search_match + word_len

-----------------------------------------------------------------------------
(* Document (document.rs) *)

NoName == <<"NoName">>  \* Option::None of Document.file_name
NoFile == <<"NoFile">>  \* no file was created

Pos(x, y) == [x |-> x, y |-> y]

NonePos == Pos(None, None)  \* Option::None of an Option<Position>

\* the Document held in the variables
Doc == [rows |-> rows, file_name |-> file_name, dirty |-> dirty,
        file_type |-> file_type]

\* Document::default()
DocumentDefault ==
    [rows |-> <<>>, file_name |-> NoName, dirty |-> FALSE,
     file_type |-> DefaultFileType]

\* Document::len
DocLen(d) == Len(d.rows)

RECURSIVE SplitLines(_, _)
\* the pieces of s between its '\n' chars, cur being the piece under way
SplitLines(s, cur) ==
    IF s = <<>> THEN IF cur = <<>> THEN <<>> ELSE <<cur>>
    ELSE IF Head(s) = LF
    THEN <<IF cur # <<>> /\ cur[Len(cur)] = CR
           THEN SubSeq(cur, 1, Len(cur) - 1) ELSE cur>>
         \o SplitLines(Tail(s), <<>>)
    ELSE SplitLines(Tail(s), Append(cur, Head(s)))

\* str::lines: the lines of content, without their "\n" or "\r\n" terminators
Lines(content) == SplitLines(content, <<>>)

\* the rows Document::open returns: built by the second pass over the lines
OpenedRow(line, file_type_) == RowFrom(line)

\* Document::open of a readable file
DocumentOpen(path, content) ==
    [rows |-> [i \in 1..Len(Lines(content)) |->
                  OpenedRow(Lines(content)[i], FileTypeFrom(path))],
     file_name |-> path,
     dirty |-> FALSE,
     file_type |-> FileTypeFrom(path)]

\* s with e put in front of its element at 0-based index i (Vec::insert)
VecInsert(s, i, e) == Take(s, i) \o <<e>> \o Skip(s, i)

\* s without its element at 0-based index i (Vec::remove)
VecRemove(s, i) == Take(s, i) \o Skip(s, i + 1)

\* Document::insert_newline
InsertNewline(d, at) ==
    LET opts == d.file_type.hl_opts
    IN IF at.y > DocLen(d) THEN d
       ELSE IF at.y >= DocLen(d) THEN [d EXCEPT !.rows = Append(d.rows, RowDefault)]
       ELSE LET current_row == RowHighlight(SplitKept(d.rows[at.y + 1], at.x), opts, NoWord)
                new_row == RowHighlight(SplitReturned(d.rows[at.y + 1], at.x), opts, NoWord)
            IN [d EXCEPT !.rows =
                   VecInsert([d.rows EXCEPT ![at.y + 1] = current_row], at.y + 1, new_row)]

\* the value Document::insert leaves in dirty once the row check has passed
InsertDirty(d) == TRUE

\* an insert that treats the newline as any other character
DocumentInsertRaw(d, at, c) ==
    LET opts == d.file_type.hl_opts
    IN IF at.y > DocLen(d) THEN d
       ELSE IF at.y = DocLen(d)
       THEN [d EXCEPT !.dirty = InsertDirty(d),
                      !.rows = Append(d.rows,
                                  RowHighlight(RowInsert(RowDefault, 0, c), opts, NoWord))]
       ELSE [d EXCEPT !.dirty = InsertDirty(d),
                      !.rows[at.y + 1] = RowHighlight(RowInsert(@, at.x, c), opts, NoWord)]

\* Document::insert
DocumentInsert(d, at, c) ==
    LET opts == d.file_type.hl_opts
    IN IF at.y > DocLen(d) THEN d
       ELSE IF c = LF THEN InsertNewline([d EXCEPT !.dirty = InsertDirty(d)], at)
       ELSE IF at.y = DocLen(d)
       THEN [d EXCEPT !.dirty = InsertDirty(d),
                      !.rows = Append(d.rows,
                                  RowHighlight(RowInsert(RowDefault, 0, c), opts, NoWord))]
       ELSE [d EXCEPT !.dirty = InsertDirty(d),
                      !.rows[at.y + 1] = RowHighlight(RowInsert(@, at.x, c), opts, NoWord)]

\* a merge taken only when the column lies past the end of the row
DeleteMergesPastEnd(d, at) ==
    at.x > RowLen(d.rows[at.y + 1]) /\ at.y + 1 < DocLen(d)

\* Document::delete: does the call merge the next row into row at.y
DeleteMerges(d, at) == at.x = RowLen(d.rows[at.y + 1]) /\ at.y + 1 < DocLen(d)

\* Document::delete
DocumentDelete(d, at) ==
    LET opts == d.file_type.hl_opts
    IN IF at.y >= DocLen(d) THEN d
       ELSE IF DeleteMerges(d, at)
       THEN LET next_row == d.rows[at.y + 2]
                removed == VecRemove(d.rows, at.y + 1)
            IN [d EXCEPT !.dirty = TRUE,
                         !.rows = [removed EXCEPT ![at.y + 1] =
                                      RowHighlight(RowAppend(@, next_row), opts, NoWord)]]
       ELSE [d EXCEPT !.dirty = TRUE,
                      !.rows[at.y + 1] = RowHighlight(RowDelete(@, at.x), opts, NoWord)]

\* Row::as_bytes of every row, each followed by "\n": the writes of Document::save
SaveWrites(d) ==
    [w \in 1..(2 * DocLen(d)) |->
        IF w % 2 = 1 THEN d.rows[(w + 1) \div 2].string ELSE <<LF>>]

\* a save that clears dirty whether or not its writes succeeded
SavedDirtyAlways(d, done) == FALSE

\* the dirty flag after a Document::save that got through `done` of its writes
SavedDirty(d, done) == IF done = 2 * DocLen(d) THEN FALSE ELSE d.dirty

\* Document::save with a file name, File::create having succeeded and `done`
\* of the writes having succeeded (all of them: the save returns Ok)
DocumentSave(d, done) ==
    LET ft == FileTypeFrom(d.file_name)
    IN [d EXCEPT !.file_type = ft,
                 !.rows = [i \in 1..DocLen(d) |->
                              IF 2 * i <= done
                              THEN RowHighlight(d.rows[i], ft.hl_opts, NoWord)
                              ELSE d.rows[i]],
                 !.dirty = SavedDirty(d, done)]

\* the file Document::save leaves after `done` of its writes
SavedFile(d, done) == Concat(Take(SaveWrites(d), done))

\* the search order of Document::find: the anchor of the next row to search
NextAnchor(d, position, direction) ==
    IF direction = Forward
    THEN Pos(0, position.y + 1)
    ELSE Pos(RowLen(d.rows[position.y + 1]),
             IF position.y = 0 THEN 0 ELSE position.y - 1)

RECURSIVE FindLoop(_, _, _, _, _)
\* the loop of Document::find with `left` iterations to go
FindLoop(d, q, position, direction, left) ==
    IF left = 0 THEN NonePos
    ELSE IF position.y >= DocLen(d) THEN NonePos
    ELSE LET x == RowFind(d.rows[position.y + 1], q, position.x, direction)
         IN IF x # None THEN Pos(x, position.y)
            ELSE FindLoop(d, q, NextAnchor(d, position, direction), direction, left - 1)

\* Document::find
DocumentFind(d, q, at, direction) ==
    IF at.y >= DocLen(d) THEN NonePos
    ELSE FindLoop(d, q, at, direction,
                  IF direction = Forward THEN DocLen(d) - at.y ELSE at.y + 1)

-----------------------------------------------------------------------------
(* Editor (editor.rs): the key dispatch, the cursor and the search prompt.   *)
(* The fields that only drive the drawing (offset, status_message,           *)
(* highlighted_word) are left out.                                           *)

QUIT_TIMES == 3

\* Editor::new on a terminal of the given height, before the document is set
EditorNew(terminal_height) ==
    [should_quit |-> FALSE,
     cursor_position |-> Pos(0, 0),
     quit_times |-> QUIT_TIMES,
     terminal_height |-> terminal_height,
     prompt |-> "none",
     result |-> <<>>,
     old_position |-> Pos(0, 0)]

\* the Editor of the specifications that press no key
IdleEditor == editor = EditorNew(1) /\ quits = 0

\* row.len() of document.row(y), 0 when there is no such row
WidthAt(d, y) == IF y < DocLen(d) THEN RowLen(d.rows[y + 1]) ELSE 0

\* Editor::move_cursor
MoveCursor(e, d, key) ==
    LET x == e.cursor_position.x
        y == e.cursor_position.y
        height == DocLen(d)
        terminal_height == e.terminal_height
        width == WidthAt(d, y)
        moved ==
            CASE key = "Up" -> Pos(x, IF y > 0 THEN y - 1 ELSE 0)
              [] key = "Down" -> Pos(x, IF y < height THEN y + 1 ELSE y)
              [] key = "Right" -> IF x < width THEN Pos(x + 1, y)
                                  ELSE IF y < height THEN Pos(0, y + 1)
                                  ELSE Pos(x, y)
              [] key = "Left" -> IF x > 0 THEN Pos(x - 1, y)
                                 ELSE IF y > 0 THEN Pos(WidthAt(d, y - 1), y - 1)
                                 ELSE Pos(x, y)
              [] key = "PageUp" -> Pos(x, IF y > terminal_height
                                          THEN y - terminal_height ELSE 0)
              [] key = "PageDown" -> Pos(x, IF y + terminal_height < height
                                            THEN y + terminal_height ELSE height)
              [] key = "Home" -> Pos(0, y)
              [] key = "End" -> Pos(width, y)
              [] OTHER -> Pos(x, y)
    IN [e EXCEPT !.cursor_position =
           Pos(IF moved.x > WidthAt(d, moved.y) THEN WidthAt(d, moved.y) ELSE moved.x,
               moved.y)]

\* the end of Editor::process_keypress: quit_times goes back to QUIT_TIMES
ResetQuitTimes(e) ==
    IF e.quit_times < QUIT_TIMES THEN [e EXCEPT !.quit_times = QUIT_TIMES] ELSE e

\* a Ctrl-Q that warns on its first press only
CtrlQWarnsOnce(e, d) == e.quit_times = QUIT_TIMES /\ d.dirty

\* Key::Ctrl('q'): does the press only warn
CtrlQWarns(e, d) == e.quit_times > 0 /\ d.dirty

\* Key::Ctrl('q')
PressCtrlQ(e, d) ==
    IF CtrlQWarns(e, d)
    THEN [e EXCEPT !.quit_times = @ - 1]
    ELSE ResetQuitTimes([e EXCEPT !.should_quit = TRUE])

\* the callback Editor::search gives the prompt, run after a key of the
\* prompt with the query typed so far
SearchCallback(e, d, key, q) ==
    LET direction == IF key \in {"Left", "Up"} THEN Backward ELSE Forward
        moved == key \in {"Right", "Down"}
        e1 == IF moved THEN MoveCursor(e, d, "Right") ELSE e
        position == DocumentFind(d, q, e1.cursor_position, direction)
    IN IF position # NonePos THEN [e1 EXCEPT !.cursor_position = position]
       ELSE IF moved THEN MoveCursor(e1, d, "Left")
       ELSE e1

\* the end of Editor::search and of the key dispatch that called it: the
\* prompt returned `result`
SearchEnds(e, result) ==
    ResetQuitTimes([e EXCEPT !.prompt = "none",
                             !.result = <<>>,
                             !.old_position = Pos(0, 0),
                             !.cursor_position =
                                 IF result = <<>> THEN e.old_position ELSE @])

-----------------------------------------------------------------------------
(* The Document as a state machine: Spec *)

\* every string of at most n chars drawn from S
Strings(S, n) == UNION {[1..k -> S] : k \in 0..n}

\* the chars typed into a document
Chars == {"1", ACUTE, LF}

\* the paths a document is opened from or saved to
Paths == {<<"f", ".", "r", "s">>, <<"f", ".", "t">>}

\* the files Document::open is given
FileContents == Strings({"1", ACUTE, LF}, MaxChars + 1)

Positions == {Pos(x, y) : x \in 0..MaxPos, y \in 0..MaxPos}

NoPos == Pos(0, 0)
NoChar == "NoChar"

\* the model stays within its bounds
WithinBounds(d) ==
    /\ DocLen(d) <= MaxRows
    /\ Len(Concat([i \in 1..DocLen(d) |-> d.rows[i].string])) <= MaxChars

SetDoc(d) ==
    /\ rows' = d.rows
    /\ file_name' = d.file_name
    /\ dirty' = d.dirty
    /\ file_type' = d.file_type

\* the record of a call: the operation, whether it was accepted (insert,
\* delete) or returned Ok (open, save), dirty as the call found it, and the
\* arguments of an insert or a delete
Call(op, ok, at, c) ==
    [op |-> op, ok |-> ok, was_dirty |-> dirty, at |-> at, c |-> c]

IdleRow ==
    /\ row = RowDefault /\ other = RowDefault /\ row0 = RowDefault /\ hist = <<>>

\* no search has been run in this direction
NotRun == [run |-> FALSE, at |-> NoPos, ret |-> NoPos]

\* no Document call is recorded
NoCall == [op |-> "NoCall", at |-> NoPos, c |-> NoChar,
           before |-> DocumentDefault, after |-> DocumentDefault]

NoSearches == [d \in {Forward, Backward} |-> NotRun]

IdleFind ==
    /\ query = <<>> /\ found = NoSearches /\ first = NoCall

Init ==
    /\ IdleEditor /\ IdleLoop
    /\ rows = <<>> /\ file_name = NoName /\ dirty = FALSE
    /\ file_type = DefaultFileType
    /\ written = NoFile
    /\ last = [op |-> "default", ok |-> TRUE, was_dirty |-> FALSE,
               at |-> NoPos, c |-> NoChar]
    /\ IdleRow /\ IdleFind

\* Editor::new: Document::open(file_name) succeeds
Open ==
    /\ last.op = "default"
    /\ \E path \in Paths, content \in FileContents :
        /\ WithinBounds(DocumentOpen(path, content))
        /\ SetDoc(DocumentOpen(path, content))
    /\ written' = NoFile
    /\ last' = Call("open", TRUE, NoPos, NoChar)
    /\ UNCHANGED <<editorVars, loop, rowVars, findVars>>

\* Editor::new: Document::open(file_name) fails, the editor starts on
\* Document::default()
OpenFails ==
    /\ last.op = "default"
    /\ SetDoc(DocumentDefault)
    /\ written' = NoFile
    /\ last' = Call("open", FALSE, NoPos, NoChar)
    /\ UNCHANGED <<editorVars, loop, rowVars, findVars>>

\* Document::open of the file the save before it has just written
Reopen ==
    /\ last.op = "save" /\ last.ok /\ written # NoFile
    /\ SetDoc(DocumentOpen(file_name, written))
    /\ written' = NoFile
    /\ last' = Call("open", TRUE, NoPos, NoChar)
    /\ UNCHANGED <<editorVars, loop, rowVars, findVars>>

\* document.insert(&at, c)
Insert ==
    /\ \E at \in Positions, c \in Chars :
        /\ WithinBounds(DocumentInsert(Doc, at, c))
        /\ SetDoc(DocumentInsert(Doc, at, c))
        /\ last' = Call("insert", at.y <= Len(rows), at, c)
    /\ written' = NoFile
    /\ UNCHANGED <<editorVars, loop, rowVars, findVars>>

\* document.delete(&at)
Delete ==
    /\ \E at \in Positions :
        /\ SetDoc(DocumentDelete(Doc, at))
        /\ last' = Call("delete", at.y < Len(rows), at, NoChar)
    /\ written' = NoFile
    /\ UNCHANGED <<editorVars, loop, rowVars, findVars>>

\* Editor::save: document.file_name = new_name, for a document without one
SetFileName ==
    /\ file_name = NoName
    /\ \E name \in Paths : file_name' = name
    /\ written' = NoFile
    /\ last' = Call("set_file_name", TRUE, NoPos, NoChar)
    /\ UNCHANGED <<editorVars, loop, rows, dirty, file_type, rowVars, findVars>>

\* document.save() of a document that has no file name: Ok(())
SaveNoName ==
    /\ file_name = NoName
    /\ written' = NoFile
    /\ last' = Call("save", TRUE, NoPos, NoChar)
    /\ UNCHANGED <<editorVars, loop, rows, file_name, dirty, file_type, rowVars, findVars>>

\* document.save(): File::create fails, Err
SaveCreateFails ==
    /\ file_name # NoName
    /\ written' = NoFile
    /\ last' = Call("save", FALSE, NoPos, NoChar)
    /\ UNCHANGED <<editorVars, loop, rows, file_name, dirty, file_type, rowVars, findVars>>

\* document.save(): the file is created and `done` writes succeed; Ok when
\* every write succeeded, Err at the first that fails
SaveWrite ==
    /\ file_name # NoName
    /\ \E done \in 0..(2 * Len(rows)) :
        /\ SetDoc(DocumentSave(Doc, done))
        /\ written' = SavedFile(Doc, done)
        /\ last' = Call("save", done = 2 * Len(rows), NoPos, NoChar)
    /\ UNCHANGED <<editorVars, loop, rowVars, findVars>>

Next ==
    \/ Open
    \/ OpenFails
    \/ Reopen
    \/ Insert
    \/ Delete
    \/ SetFileName
    \/ SaveNoName
    \/ SaveCreateFails
    \/ SaveWrite

Spec == Init /\ [][Next]_vars

-----------------------------------------------------------------------------
(* Properties of the Document state machine (Spec) *)

\* the content of a sequence of rows
Contents(rs) == [i \in 1..Len(rs) |-> rs[i].string]

\* the position of an insert addresses a row or a column beyond the bounds
InsertOutOfRange(rs, at) ==
    \/ at.y > Len(rs)
    \/ at.y < Len(rs) /\ at.x > RowLen(rs[at.y + 1])

\* the position of a delete addresses a row or a column beyond the bounds
DeleteOutOfRange(rs, at) ==
    \/ at.y >= Len(rs)
    \/ at.y < Len(rs) /\ at.x > RowLen(rs[at.y + 1])

\* C1: an insert or a delete whose position addresses a row or a column
\* beyond the current bounds is a no-op: the rows and their contents are
\* unchanged and dirty keeps its value.
C1_OutOfRangeIsNoOp ==
    [][(\/ last'.op = "insert" /\ InsertOutOfRange(rows, last'.at)
        \/ last'.op = "delete" /\ DeleteOutOfRange(rows, last'.at))
       => (Contents(rows') = Contents(rows) /\ dirty' = dirty)]_vars

\* C2: dirty becomes true on every accepted insert or delete; it goes from
\* true to false only by a save that has a file name and completes every
\* write; a save without a file name returns Ok and changes nothing; a save
\* that fails returns the error and leaves dirty as it was.
C2_DirtyProtocol ==
    [][/\ (last'.op \in {"insert", "delete"} /\ last'.ok => dirty')
       /\ (dirty /\ ~dirty' =>
              /\ last'.op = "save" /\ last'.ok
              /\ file_name # NoName
              /\ written' = SavedFile(Doc, 2 * Len(rows)))
       /\ (last'.op = "save" /\ file_name = NoName =>
              last'.ok /\ Doc' = Doc /\ written' = NoFile)
       /\ (last'.op = "save" /\ ~last'.ok => dirty' = dirty)]_vars

\* a dirty document has been saved, every write succeeding
C2_Witness ==
    /\ last.op = "save" /\ last.ok /\ last.was_dirty
    /\ ~dirty /\ file_name # NoName /\ Len(rows) > 0

\* C3: after Document.open succeeds every row is classified: its tag array
\* holds one tag per grapheme, the classification of its content under the
\* file's type with no search word.
C3_OpenedRowsClassified ==
    (last.op = "open" /\ last.ok) =>
        \A i \in 1..Len(rows) :
            /\ rows[i].highlighting =
                   Highlighting(rows[i], file_type.hl_opts, NoWord)
            /\ Len(rows[i].highlighting) = Len(Graphemes(rows[i].string))

-----------------------------------------------------------------------------
(* Two Document calls in a row, recorded: SpecPair *)

\* document.insert(&at, '\n') on a document of a single row, recorded as the
\* first of two calls
PairFirst ==
    /\ first = NoCall
    /\ Len(rows) = 1
    /\ \E x \in 0..MaxPos :
        /\ WithinBounds(DocumentInsert(Doc, Pos(x, 0), LF))
        /\ SetDoc(DocumentInsert(Doc, Pos(x, 0), LF))
        /\ first' = [op |-> "insert", at |-> Pos(x, 0), c |-> LF,
                     before |-> Doc, after |-> DocumentInsert(Doc, Pos(x, 0), LF)]
        /\ last' = Call("insert", TRUE, Pos(x, 0), LF)
    /\ written' = NoFile
    /\ UNCHANGED <<editorVars, loop, rowVars, query, found>>

\* document.delete(&at), the call that follows the recorded one
PairSecond ==
    /\ first # NoCall
    /\ last.op = "insert"
    /\ \E at \in Positions :
        /\ SetDoc(DocumentDelete(Doc, at))
        /\ last' = Call("delete", at.y < Len(rows), at, NoChar)
    /\ written' = NoFile
    /\ UNCHANGED <<editorVars, loop, rowVars, findVars>>

PairNext ==
    \/ first = NoCall /\ Next
    \/ PairFirst
    \/ PairSecond

SpecPair == Init /\ [][PairNext]_vars

\* a newline was inserted at the end of the single row of a document, and a
\* delete followed it
SplitAtEndThenDelete ==
    /\ first.op = "insert"
    /\ first.at.x = RowLen(first.before.rows[1])
    /\ last.op = "delete"

\* C4 as stated: for a document of a single row y, inserting the newline at
\* the end of row y and then deleting at (0, y+1) restores the document: the
\* same row count and the same row content.
C4_DeleteAtNextRowStart ==
    (SplitAtEndThenDelete /\ last.at = Pos(0, 1)) =>
        Contents(rows) = Contents(first.before.rows)

\* C4 amended: inserting the newline at the end of row y and then deleting at
\* (length of row y, y), the length read after the insert, restores the
\* document: the same row count and the same row content.
C4_DeleteAtRowEndRestores ==
    (SplitAtEndThenDelete /\ last.at = Pos(RowLen(first.after.rows[1]), 0)) =>
        Contents(rows) = Contents(first.before.rows)

\* a row that is not empty was split at its end and merged back
C4_Witness ==
    /\ SplitAtEndThenDelete
    /\ last.at = Pos(RowLen(first.after.rows[1]), 0)
    /\ first.before.rows[1].string # <<>>
    /\ Len(first.after.rows) = 2
    /\ Len(rows) = 1

-----------------------------------------------------------------------------
(* A Row under a sequence of Row calls, the last two recorded: SpecRow *)

\* the chars of the rows under test
RowChars == {"a", "1", ".", ACUTE}

\* the row of the number scenario: "12.34.56"
NumberRow == <<"1", "2", ".", "3", "4", ".", "5", "6">>

\* "a\u{301}\t\u{301}": the graphemes a-acute, tab, and an acute on its own
TabRow == <<"a", ACUTE, TAB, ACUTE>>

\* the strings a Row under test is built from
RowStrings == Strings(RowChars, MaxChars) \cup {NumberRow, TabRow}

\* the search words passed to Row::highlight
Words == {NoWord, <<>>, <<"1">>, <<"a">>, <<ACUTE>>}

\* the record of a Row call: its arguments, the Row it returned (split) and
\* the Row it was called on
RowCall(op, at, c, arg, numbers, word, ret) ==
    [op |-> op, at |-> at, c |-> c, arg |-> arg, numbers |-> numbers,
     word |-> word, ret |-> ret, before |-> row]

\* the call is recorded; of the calls recorded before it the last one is kept
Record(call) ==
    /\ hist' = IF Len(hist) = 2 THEN <<hist[2], call>> ELSE Append(hist, call)
    /\ row0' = IF Len(hist) = 2 THEN hist[2].before ELSE row0

InitRow ==
    /\ IdleEditor /\ IdleLoop
    /\ rows = <<>> /\ file_name = NoName /\ dirty = FALSE
    /\ file_type = DefaultFileType
    /\ written = NoFile
    /\ last = [op |-> "default", ok |-> TRUE, was_dirty |-> FALSE,
               at |-> NoPos, c |-> NoChar]
    /\ IdleFind
    /\ row \in {RowFrom(s) : s \in RowStrings}
    /\ row0 = row
    /\ other = RowDefault
    /\ hist = <<>>

\* row.insert(at, c)
RInsert ==
    /\ Len(row.string) < MaxChars
    /\ \E at \in 0..MaxPos, c \in RowChars :
        /\ row' = RowInsert(row, at, c)
        /\ Record(RowCall("insert", at, c, RowDefault, FALSE, NoWord, RowDefault))
    /\ other' = RowDefault
    /\ UNCHANGED <<editorVars, loop, docVars, findVars>>

\* row.delete(at)
RDelete ==
    /\ Len(row.string) <= MaxChars
    /\ \E at \in 0..MaxPos :
        /\ row' = RowDelete(row, at)
        /\ Record(RowCall("delete", at, NoChar, RowDefault, FALSE, NoWord, RowDefault))
    /\ other' = RowDefault
    /\ UNCHANGED <<editorVars, loop, docVars, findVars>>

\* row.append(&new): new is the Row the split before it returned, or a Row
\* made from one char
RAppend ==
    /\ \E new \in {other} \cup {RowFrom(<<c>>) : c \in RowChars} :
        /\ Len(row.string) + Len(new.string) <= MaxChars
        /\ row' = RowAppend(row, new)
        /\ Record(RowCall("append", 0, NoChar, new, FALSE, NoWord, RowDefault))
    /\ other' = RowDefault
    /\ UNCHANGED <<editorVars, loop, docVars, findVars>>

\* let new = row.split(at)
RSplit ==
    /\ Len(row.string) <= MaxChars
    /\ \E at \in 0..MaxPos :
        /\ row' = SplitKept(row, at)
        /\ other' = SplitReturned(row, at)
        /\ Record(RowCall("split", at, NoChar, RowDefault, FALSE, NoWord,
                          SplitReturned(row, at)))
    /\ UNCHANGED <<editorVars, loop, docVars, findVars>>

\* row.highlight(opts, word)
RHighlight ==
    /\ \E numbers \in BOOLEAN, word \in Words :
        /\ row' = RowHighlight(row, [DefaultHighLightingOptions
                                       EXCEPT !.numbers = numbers], word)
        /\ Record(RowCall("highlight", 0, NoChar, RowDefault, numbers, word,
                          RowDefault))
    /\ other' = RowDefault
    /\ UNCHANGED <<editorVars, loop, docVars, findVars>>

NextRow ==
    \/ RInsert
    \/ RDelete
    \/ RAppend
    \/ RSplit

SpecRow == InitRow /\ [][NextRow]_vars

\* a Row made from a string and classified: SpecHighlight
SpecHighlight == InitRow /\ [][RHighlight]_vars

-----------------------------------------------------------------------------
(* Properties of Row calls (SpecRow, SpecHighlight) *)

\* the two recorded calls are op1 and then op2
Calls(op1, op2) ==
    /\ Len(hist) = 2
    /\ hist[1].op = op1
    /\ hist[2].op = op2

\* the Row has the content and the length it had before the recorded calls
Restored == row.string = row0.string /\ RowLen(row) = RowLen(row0)

\* C8: for every at in [0, length), split(at) and then append of the
\* returned row reconstructs the original content and the original length.
C8_SplitThenAppendRestores ==
    (/\ Calls("split", "append")
     /\ hist[2].arg = hist[1].ret
     /\ hist[1].at < RowLen(row0)) => Restored

\* C9: for any row, any char c and any position 0 <= at <= length,
\* insert(at, c) and then delete(at) leaves the content and the length as
\* they were before the two calls.
C9_InsertThenDeleteRestores ==
    (/\ Calls("insert", "delete")
     /\ hist[2].at = hist[1].at
     /\ hist[1].at <= RowLen(row0)) => Restored

\* the Row "12.34.56" has just been classified with numbers enabled and no
\* search word
NumberRowClassified ==
    /\ hist # <<>>
    /\ hist[Len(hist)].op = "highlight"
    /\ hist[Len(hist)].numbers
    /\ hist[Len(hist)].word = NoWord
    /\ row.string = NumberRow

\* C10 as stated: "12.34.56" classified with numbers enabled and no search
\* word has positions 0-4 and 6-7 tagged Number, two runs split by the
\* second '.', position 5 not being tagged Number.
C10_TwoNumberRuns ==
    NumberRowClassified =>
        /\ Len(row.highlighting) = Len(NumberRow)
        /\ \A i \in (1..5) \cup (7..8) : row.highlighting[i] = HlNumber
        /\ row.highlighting[6] # HlNumber

\* C10 amended: "12.34.56" classified with numbers enabled and no search
\* word has every position 0-7 tagged Number, one run that takes in both
\* '.' chars, position 5 included.
C10_OneNumberRun ==
    NumberRowClassified =>
        /\ Len(row.highlighting) = Len(NumberRow)
        /\ \A i \in 1..Len(NumberRow) : row.highlighting[i] = HlNumber

C10_Witness ==
    /\ NumberRowClassified
    /\ row.highlighting[6] = HlNumber

-----------------------------------------------------------------------------
(* Row::find on a Row: SpecRowFind *)

\* the chars of the rows searched
FindChars == {"a", ACUTE}

\* the queries searched for
Queries == Strings(FindChars, 2)

\* the record of a search: the position it started from and what it returned
Search(at, ret) == [run |-> TRUE, at |-> at, ret |-> ret]

InitRowFind ==
    /\ IdleEditor /\ IdleLoop
    /\ rows = <<>> /\ file_name = NoName /\ dirty = FALSE
    /\ file_type = DefaultFileType
    /\ written = NoFile
    /\ last = [op |-> "default", ok |-> TRUE, was_dirty |-> FALSE,
               at |-> NoPos, c |-> NoChar]
    /\ row \in {RowFrom(s) : s \in Strings(FindChars, MaxChars) \cup {TabRow}}
    /\ row0 = row /\ other = RowDefault /\ hist = <<>>
    /\ query \in Queries
    /\ found = NoSearches
    /\ first = NoCall

\* row.insert(at, c) or row.delete(at) before the searches
FindEdit ==
    /\ found = NoSearches
    /\ Len(row.string) <= MaxChars
    /\ \E at \in 0..MaxPos :
        \/ \E c \in FindChars :
            /\ Len(row.string) < MaxChars
            /\ row' = RowInsert(row, at, c)
        \/ row' = RowDelete(row, at)
    /\ row0' = row'
    /\ UNCHANGED <<editorVars, loop, docVars, other, hist, findVars>>

\* row.find(query, at, SearchDirection::Forward)
RowFindForward ==
    /\ ~found[Forward].run
    /\ \E at \in 0..(MaxPos + 1) :
        found' = [found EXCEPT ![Forward] =
                     Search(Pos(at, 0), Pos(RowFind(row, query, at, Forward), 0))]
    /\ UNCHANGED <<editorVars, loop, docVars, rowVars, query, first>>

\* row.find(query, at, SearchDirection::Backward)
RowFindBackward ==
    /\ ~found[Backward].run
    /\ \E at \in 0..(MaxPos + 1) :
        found' = [found EXCEPT ![Backward] =
                     Search(Pos(at, 0), Pos(RowFind(row, query, at, Backward), 0))]
    /\ UNCHANGED <<editorVars, loop, docVars, rowVars, query, first>>

NextRowFind ==
    \/ FindEdit
    \/ RowFindForward
    \/ RowFindBackward

SpecRowFind == InitRowFind /\ [][NextRowFind]_vars

\* both searches have been run on the row
BothRun == found[Forward].run /\ found[Backward].run

\* the query occurs exactly once in the row
OccursOnce == Cardinality(Occurrences(row.string, query)) = 1

\* C7 as stated: when the query (not empty) occurs exactly once in the row,
\* find Forward and find Backward from the same anchor return the same
\* grapheme index.
C7_SameAnchorSameIndex ==
    (/\ BothRun
     /\ query # <<>>
     /\ OccursOnce
     /\ found[Forward].at = found[Backward].at)
    => found[Forward].ret = found[Backward].ret

\* C7 amended: when the query (not empty) occurs exactly once in the row,
\* find Forward from anchor 0 and find Backward from the anchor len() (each
\* the search of the whole row) return the same grapheme index.
C7_WholeRowSameIndex ==
    (/\ BothRun
     /\ query # <<>>
     /\ OccursOnce
     /\ found[Forward].at.x = 0
     /\ found[Backward].at.x = RowLen(row))
    => found[Forward].ret = found[Backward].ret

\* both searches of the whole row have found the one occurrence, which is
\* not at the start of the row
C7_Witness ==
    /\ BothRun
    /\ OccursOnce
    /\ found[Forward].at.x = 0
    /\ found[Backward].at.x = RowLen(row)
    /\ found[Forward].ret.x > 0
    /\ found[Backward].ret.x > 0

-----------------------------------------------------------------------------
(* Document::find on a Document: SpecDocFind *)

\* the rows ["fn main() {", "}"]
MainRows ==
    <<RowFrom(<<"f", "n", " ", "m", "a", "i", "n", "(", ")", " ", "{">>),
      RowFrom(<<"}">>)>>

\* the query "main"
MainQuery == <<"m", "a", "i", "n">>

\* the sequences of at most MaxRows rows, MaxChars chars in all, each row
\* made from its string
SmallRows ==
    {rs \in UNION {[1..n -> {RowFrom(s) : s \in Strings(FindChars, MaxChars)}] :
                      n \in 0..MaxRows} :
        Len(Concat(Contents(rs))) <= MaxChars}

InitDocFind ==
    /\ IdleEditor /\ IdleLoop
    /\ rows \in SmallRows \cup {MainRows, <<RowFrom(TabRow)>>}
    /\ file_name = NoName /\ dirty = FALSE
    /\ file_type = IF rows = MainRows
                   THEN FileTypeFrom(<<"m", ".", "r", "s">>)
                   ELSE DefaultFileType
    /\ written = NoFile
    /\ last = [op |-> "default", ok |-> TRUE, was_dirty |-> FALSE,
               at |-> NoPos, c |-> NoChar]
    /\ IdleRow
    /\ query \in Queries \cup {MainQuery}
    /\ found = NoSearches
    /\ first = NoCall

\* document.insert(&at, c) before the searches
DocFindEdit ==
    /\ found = NoSearches
    /\ WithinBounds(Doc)
    /\ \E at \in Positions, c \in FindChars \cup {LF} :
        /\ WithinBounds(DocumentInsert(Doc, at, c))
        /\ SetDoc(DocumentInsert(Doc, at, c))
        /\ last' = Call("insert", at.y <= Len(rows), at, c)
    /\ UNCHANGED <<editorVars, loop, written, rowVars, findVars>>

\* the positions searched from: the second search starts where the first did
Anchors(direction) ==
    {at \in Positions :
        \A d \in {Forward, Backward} : found[d].run => at = found[d].at}

\* document.find(&query, &at, SearchDirection::Forward)
DocFindForward ==
    /\ ~found[Forward].run
    /\ \E at \in Anchors(Forward) :
        found' = [found EXCEPT ![Forward] =
                     Search(at, DocumentFind(Doc, query, at, Forward))]
    /\ UNCHANGED <<editorVars, loop, docVars, rowVars, query, first>>

\* document.find(&query, &at, SearchDirection::Backward)
DocFindBackward ==
    /\ ~found[Backward].run
    /\ \E at \in Anchors(Backward) :
        found' = [found EXCEPT ![Backward] =
                     Search(at, DocumentFind(Doc, query, at, Backward))]
    /\ UNCHANGED <<editorVars, loop, docVars, rowVars, query, first>>

NextDocFind ==
    \/ DocFindEdit
    \/ DocFindForward
    \/ DocFindBackward

SpecDocFind == InitDocFind /\ [][NextDocFind]_vars

RECURSIVE PriorRows(_, _)
\* the search of row y from its own end, and then of the rows before it
PriorRows(q, y) ==
    LET x == RowFind(rows[y + 1], q, RowLen(rows[y + 1]), Backward)
    IN IF x # None THEN Pos(x, y)
       ELSE IF y = 0 THEN NonePos
       ELSE PriorRows(q, y - 1)

\* the first match met searching the prefix of row at.y that ends at at.x and
\* then each prior row from its own end
BackwardMatch(q, at) ==
    LET x == RowFind(rows[at.y + 1], q, at.x, Backward)
    IN IF x # None THEN Pos(x, at.y)
       ELSE IF at.y = 0 THEN NonePos
       ELSE PriorRows(q, at.y - 1)

\* C5: find Backward from (at.x, at.y) searches the prefix of row at.y that
\* ends at at.x and then each prior row, from at.y-1 down to 0, from that
\* row's own end; it returns the first match met in that order.
C5_BackwardSearchesPriorRows ==
    (found[Backward].run /\ found[Backward].at.y < Len(rows)) =>
        found[Backward].ret = BackwardMatch(query, found[Backward].at)

\* the grapheme indexes of row r at which q starts
MatchStarts(r, q) ==
    LET gs == Graphemes(r.string)
    IN {i \in 0..(Len(gs) - 1) :
           /\ q # <<>>
           /\ Len(Concat(Take(gs, i))) \in Occurrences(r.string, q)}

\* the matches at or after column at.x of row at.y, or in a later row
MatchesFrom(q, at) ==
    {p \in {Pos(x, y) : x \in 0..Len(Concat(Contents(rows))),
                        y \in 0..(Len(rows) - 1)} :
        /\ p.y > at.y \/ (p.y = at.y /\ p.x >= at.x)
        /\ p.x \in MatchStarts(rows[p.y + 1], q)}

\* the match of the smallest (row, column) at or after at, in document order
ForwardMatch(q, at) ==
    IF MatchesFrom(q, at) = {} THEN NonePos
    ELSE CHOOSE p \in MatchesFrom(q, at) :
             \A o \in MatchesFrom(q, at) :
                 p.y < o.y \/ (p.y = o.y /\ p.x <= o.x)

\* C6: find Forward from (at.x, at.y) returns the match of the smallest
\* (row, column) among the matches that start at or after column at.x of row
\* at.y or in a later row, None when at.y is out of range or there is no
\* such match, and never a position in a row before at.y; in the rows
\* ["fn main() {", "}"], find("main", (0,0), Forward) is (3,0).
C6_ForwardReturnsFirstMatch ==
    found[Forward].run =>
        /\ found[Forward].ret = ForwardMatch(query, found[Forward].at)
        /\ found[Forward].ret # NonePos =>
               found[Forward].ret.y >= found[Forward].at.y
        /\ (rows = MainRows /\ query = MainQuery /\ found[Forward].at = Pos(0, 0))
               => found[Forward].ret = Pos(3, 0)

-----------------------------------------------------------------------------
(* A file on disk opened, edited, saved and opened again: SpecFile *)

\* the chars of the files on disk: a letter and the two line-ending chars
DiskChars == {"1", CR, LF}

\* the files on disk
DiskFiles == Strings(DiskChars, MaxChars + 1)

\* the chars inserted into the opened document
TypedChars == {"1", LF}

\* the editor is started on a file of the disk
InitFile ==
    /\ IdleEditor /\ IdleLoop
    /\ rows = <<>> /\ file_name = NoName /\ dirty = FALSE
    /\ file_type = DefaultFileType
    /\ written \in DiskFiles
    /\ last = [op |-> "default", ok |-> TRUE, was_dirty |-> FALSE,
               at |-> NoPos, c |-> NoChar]
    /\ IdleRow /\ IdleFind

\* Document::open(path) of the file on disk
FileOpen ==
    /\ last.op = "default"
    /\ \E path \in Paths :
        /\ WithinBounds(DocumentOpen(path, written))
        /\ SetDoc(DocumentOpen(path, written))
    /\ last' = Call("open", TRUE, NoPos, NoChar)
    /\ UNCHANGED <<editorVars, loop, written, rowVars, findVars>>

\* document.insert(&at, c) on the opened document
FileInsert ==
    /\ last.op # "default"
    /\ \E at \in Positions, c \in TypedChars :
        /\ WithinBounds(DocumentInsert(Doc, at, c))
        /\ SetDoc(DocumentInsert(Doc, at, c))
        /\ last' = Call("insert", at.y <= Len(rows), at, c)
    /\ written' = NoFile
    /\ UNCHANGED <<editorVars, loop, rowVars, findVars>>

\* document.delete(&at) on the opened document
FileDelete ==
    /\ last.op # "default"
    /\ \E at \in Positions :
        /\ SetDoc(DocumentDelete(Doc, at))
        /\ last' = Call("delete", at.y < Len(rows), at, NoChar)
    /\ written' = NoFile
    /\ UNCHANGED <<editorVars, loop, rowVars, findVars>>

\* document.save() returns Ok: the file is created and every write succeeds
FileSave ==
    /\ last.op # "default"
    /\ file_name # NoName
    /\ SetDoc(DocumentSave(Doc, 2 * Len(rows)))
    /\ written' = SavedFile(Doc, 2 * Len(rows))
    /\ last' = Call("save", TRUE, NoPos, NoChar)
    /\ UNCHANGED <<editorVars, loop, rowVars, findVars>>

\* Document::open of the file the save before it has just written
FileReopen ==
    /\ last.op = "save" /\ last.ok /\ written # NoFile
    /\ SetDoc(DocumentOpen(file_name, written))
    /\ last' = Call("reopen", TRUE, NoPos, NoChar)
    /\ UNCHANGED <<editorVars, loop, written, rowVars, findVars>>

NextFile ==
    \/ FileOpen
    \/ FileInsert
    \/ FileDelete
    \/ FileSave
    \/ FileReopen

SpecFile == InitFile /\ [][NextFile]_vars

\* no row of rs holds a newline character
NoNewline(rs) == \A i \in 1..Len(rs) : \A k \in 1..Len(rs[i].string) :
                     rs[i].string[k] # LF

\* every row's content followed by a single '\n'
RowsAsLines(rs) == Concat([i \in 1..Len(rs) |-> rs[i].string \o <<LF>>])

\* C11: for a Document with a file name whose rows hold no newline character,
\* a successful save followed by an open of the same file yields the same
\* number of rows, each with the content of the saved row, and dirty false;
\* the file written is every row's content followed by a single '\n'.
C11_SaveOpenRoundTrip ==
    [][(last.op = "save" /\ last.ok /\ last'.op = "reopen" /\ NoNewline(rows))
       => /\ written = RowsAsLines(rows)
          /\ Contents(rows') = Contents(rows)
          /\ ~dirty']_vars

RECURSIVE SplitAtLF(_, _)
\* the pieces of s between its '\n' chars, nothing but the '\n' taken away
SplitAtLF(s, cur) ==
    IF s = <<>> THEN IF cur = <<>> THEN <<>> ELSE <<cur>>
    ELSE IF Head(s) = LF THEN <<cur>> \o SplitAtLF(Tail(s), <<>>)
    ELSE SplitAtLF(Tail(s), Append(cur, Head(s)))

\* C12: Document.open normalizes no line ending: where a line of the file
\* ends in CRLF, the row made from it keeps the '\r' as the last character of
\* its content, only the '\n' being taken as the terminator.
C12_OpenKeepsCarriageReturn ==
    (last.op = "open" /\ written # NoFile) =>
        LET lines == SplitAtLF(written, <<>>)
        IN /\ Len(rows) = Len(lines)
           /\ \A i \in 1..Len(lines) :
                 (lines[i] # <<>> /\ lines[i][Len(lines[i])] = CR)
                 => rows[i].string = lines[i]

-----------------------------------------------------------------------------
(* The cached length of a Row (SpecRow) *)

\* the number of grapheme clusters of the content of r
GraphemeCount(r) == Len(Graphemes(r.string))

\* C13: after any sequence of Row operations (from, insert, delete, append,
\* split) the cached length Row.len returns equals the number of grapheme
\* clusters of the row's content, for the row operated on and for the row a
\* split returns.
C13_LenIsGraphemeCount ==
    /\ RowLen(row) = GraphemeCount(row)
    /\ RowLen(other) = GraphemeCount(other)

-----------------------------------------------------------------------------
(* What one Document call does to the rows (Spec) *)

\* the clusters of the content of r with index <= x, joined
UpTo(r, x) ==
    LET gs == Graphemes(r.string)
    IN Concat([i \in {k \in 1..Len(gs) : k - 1 <= x} |-> gs[i]])

\* the clusters of the content of r with index > x, joined in order
After(r, x) ==
    LET gs == Graphemes(r.string)
        n == Cardinality({k \in 1..Len(gs) : k - 1 <= x})
    IN Concat([i \in 1..(Len(gs) - n) |-> gs[n + i]])

\* the step is an accepted insert of the newline character
NewlineInserted == last'.op = "insert" /\ last'.ok /\ last'.c = LF

Without(r, x) ==
    LET gs == Graphemes(r.string)
    IN IF x < Len(gs)
       THEN Concat([i \in 1..(Len(gs) - 1) |-> IF i <= x THEN gs[i] ELSE gs[i + 1]])
       ELSE r.string

\* the step is an accepted delete
DeleteAccepted == last'.op = "delete" /\ last'.ok

Placed(r, x, c) ==
    LET gs == Graphemes(r.string)
    IN IF x < Len(gs)
       THEN Concat([i \in 1..x |-> gs[i]]) \o <<c>>
            \o Concat([i \in 1..(Len(gs) - x) |-> gs[x + i]])
       ELSE r.string \o <<c>>

\* the step is an accepted insert of a character other than the newline
CharInserted == last'.op = "insert" /\ last'.ok /\ last'.c # LF

\* C16: the insert of a character c other than the newline at (x, y): with
\* y = row_count one row is appended whose content is exactly c; with
\* y < row_count c is placed immediately before the grapheme at index x of
\* row y (appended when x >= the row's length), so that row y grows by exactly
\* one grapheme; the row count changes only in the first case and every other
\* row is unchanged.
C16_InsertPlacesChar ==
    [][CharInserted =>
         LET x == last'.at.x
             y == last'.at.y
             c == last'.c
         IN IF y = Len(rows)
            THEN /\ Len(rows') = Len(rows) + 1
                 /\ rows'[Len(rows')].string = <<c>>
                 /\ \A i \in 1..Len(rows) : rows'[i] = rows[i]
            ELSE /\ Len(rows') = Len(rows)
                 /\ rows'[y + 1].string = Placed(rows[y + 1], x, c)
                 /\ GraphemeCount(rows'[y + 1]) = GraphemeCount(rows[y + 1]) + 1
                 /\ \A i \in (1..Len(rows)) \ {y + 1} : rows'[i] = rows[i]]_vars

\* C17: after any sequence of Document.insert and Document.delete calls,
\* inserts of the newline character included, no row's content holds a
\* newline character.
C17_NoNewlineInRows == NoNewline(rows)

\* in a document that was not read from a file, a newline has been inserted
\* at the end of the row "1"
C17_Witness ==
    /\ file_name = NoName
    /\ last.op = "insert" /\ last.ok /\ last.c = LF
    /\ last.at = Pos(1, 0)
    /\ Len(rows) = 2
    /\ rows[1].string = <<"1">>

-----------------------------------------------------------------------------
(* What Row::find returns (SpecRowFind) *)

\* the grapheme indexes of r that a search from at in the direction may
\* return: the starts of query at or after at (Forward), the starts of the
\* occurrences of query that end at or before at (Backward)
Candidates(r, q, at, direction) ==
    IF direction = Forward
    THEN {i \in MatchStarts(r, q) : i >= at}
    ELSE {i \in MatchStarts(r, q) : i + Len(Graphemes(q)) <= at}

\* the index the search should return, None when there is none
Nearest(r, q, at, direction) ==
    IF at > RowLen(r) \/ q = <<>> THEN None
    ELSE IF Candidates(r, q, at, direction) = {} THEN None
    ELSE IF direction = Forward THEN Min(Candidates(r, q, at, direction))
    ELSE Max(Candidates(r, q, at, direction))

\* C18: Row.find returns None when at > length or the query is empty;
\* otherwise Forward returns the smallest grapheme index i >= at at which the
\* query occurs, Backward the largest grapheme index i at which the query
\* occurs with i + |query| <= at, and None when there is no such occurrence;
\* the index is one of the whole row.
C18_FindReturnsNearest ==
    \A direction \in {Forward, Backward} :
        found[direction].run =>
            found[direction].ret.x =
                Nearest(row, query, found[direction].at.x, direction)

-----------------------------------------------------------------------------
(* The tags Row::highlight computes (SpecHighlight) *)

\* the Row has just been classified
Classified == hist # <<>> /\ hist[Len(hist)].op = "highlight"

\* the tag the lexical rule gives the char of 1-based index k of the
\* classified Row, from the char before it and the tag before its own
RuleTag(k) ==
    LET c == row.string[k]
        numbers == hist[Len(hist)].numbers
        prev_is_separator ==
            \/ k = 1
            \/ IsAsciiPunctuation(row.string[k - 1])
            \/ IsAsciiWhitespace(row.string[k - 1])
        previous_tag == IF k > 1 THEN row.highlighting[k - 1] ELSE HlNone
    IN IF numbers /\ (\/ IsAsciiDigit(c) /\ (prev_is_separator \/ previous_tag = HlNumber)
                      \/ c = "." /\ previous_tag = HlNumber)
       THEN HlNumber
       ELSE HlNone

\* C19: a character that is not inside a search match is tagged Number
\* exactly when numbers are enabled and it is an ASCII digit and
\* (prev_is_separator or the previous tag is Number), or it is '.' and the
\* previous tag is Number; otherwise None. prev_is_separator is true at the
\* start of the row and otherwise exactly when the char immediately before
\* is ASCII punctuation or whitespace, with or without a search word.
C19_LexicalRule ==
    Classified =>
        \A k \in 1..Len(row.highlighting) :
            (k <= Len(row.string) /\ row.highlighting[k] # HlMatch)
            => row.highlighting[k] = RuleTag(k)

RECURSIVE Leftmost(_, _, _)
\* the starts of the leftmost occurrences of word in r that do not overlap,
\* scanning from the grapheme index from
Leftmost(r, word, from) ==
    LET S == {i \in MatchStarts(r, word) : i >= from}
    IN IF S = {} THEN {}
       ELSE {Min(S)} \cup Leftmost(r, word, Min(S) + Len(Graphemes(word)))

\* the tag of the grapheme of 0-based index g of the classified Row
TagOf(g) ==
    IF g + 1 <= Len(row.highlighting) THEN row.highlighting[g + 1] ELSE HlNone

\* C20: given a search word that is not empty, the occurrences recorded are
\* the leftmost occurrences that do not overlap, scanning left to right, each
\* next scan starting |word| graphemes after the start of the match before;
\* every grapheme of a recorded occurrence is tagged Match whatever its
\* lexical tag would be, and no grapheme outside one is tagged Match.
C20_MatchesTagged ==
    (Classified /\ hist[Len(hist)].word \notin {NoWord, <<>>}) =>
        LET word == hist[Len(hist)].word
            recorded == Leftmost(row, word, 0)
        IN /\ CollectMatches(row, word, 0, {}) = recorded
           /\ \A g \in 0..(GraphemeCount(row) - 1) :
                 TagOf(g) = HlMatch
                 <=> \E m \in recorded : m <= g /\ g < m + Len(Graphemes(word))

-----------------------------------------------------------------------------
(* The tags of the rows a Document call touches (Spec) *)

\* the 1-based indexes, in the rows after the step, of the rows whose content
\* the accepted insert or delete of the step created or changed
Touched ==
    IF last'.op = "insert" /\ last'.c = LF /\ last'.at.y < Len(rows)
    THEN {last'.at.y + 1, last'.at.y + 2}
    ELSE {last'.at.y + 1}

\* C21: after every accepted insert or delete, each row whose content the
\* call created or changed has a tag array of exactly one tag per grapheme,
\* equal to the classification of its new content under the document's
\* FileType with no search word.
C21_TouchedRowsClassified ==
    [][(last'.op \in {"insert", "delete"} /\ last'.ok) =>
         \A i \in Touched :
             /\ rows'[i].highlighting =
                    Highlighting(rows'[i], file_type'.hl_opts, NoWord)
             /\ Len(rows'[i].highlighting) = GraphemeCount(rows'[i])]_vars

-----------------------------------------------------------------------------
(* The Editor reading keys: SpecEditor *)

\* the chars typed into the search prompt
PromptChars == {"1"}

\* the keys Editor::move_cursor is called with by the key dispatch
MoveKeys == {"Up", "Down", "Left", "Right", "PageUp", "PageDown", "Home", "End"}

\* Editor::new without a file to open, on a terminal of some height
InitEditor ==
    /\ rows = <<>> /\ file_name = NoName /\ dirty = FALSE
    /\ file_type = DefaultFileType
    /\ written = NoFile
    /\ last = [op |-> "default", ok |-> TRUE, was_dirty |-> FALSE,
               at |-> NoPos, c |-> NoChar]
    /\ IdleRow /\ IdleFind
    /\ \E terminal_height \in {1, 2} : editor = EditorNew(terminal_height)
    /\ IdleLoop
    /\ quits = 0

\* the key dispatch reads a key
Dispatching == ~editor.should_quit /\ editor.prompt = "none"

\* the search prompt reads a key
Prompting == ~editor.should_quit /\ editor.prompt = "search"

\* the record of a key
Key(name) == Call(name, TRUE, NoPos, NoChar)

\* Key::Ctrl('q')
KeyCtrlQ ==
    /\ Dispatching
    /\ editor' = PressCtrlQ(editor, Doc)
    /\ quits' = IF quits < QUIT_TIMES THEN quits + 1 ELSE QUIT_TIMES + 1
    /\ last' = Key("Ctrl-Q")
    /\ written' = NoFile
    /\ UNCHANGED <<rows, file_name, dirty, file_type, rowVars, findVars, loop>>

\* Key::Char(c)
KeyChar ==
    /\ Dispatching
    /\ \E c \in Chars :
        LET d == DocumentInsert(Doc, editor.cursor_position, c)
        IN /\ WithinBounds(d)
           /\ SetDoc(d)
           /\ editor' = ResetQuitTimes(MoveCursor(editor, d, "Right"))
    /\ quits' = 0
    /\ last' = Key("Char")
    /\ written' = NoFile
    /\ UNCHANGED <<rowVars, findVars, loop>>

\* Key::Delete
KeyDelete ==
    /\ Dispatching
    /\ SetDoc(DocumentDelete(Doc, editor.cursor_position))
    /\ editor' = ResetQuitTimes(editor)
    /\ quits' = 0
    /\ last' = Key("Delete")
    /\ written' = NoFile
    /\ UNCHANGED <<rowVars, findVars, loop>>

\* Key::Backspace
KeyBackspace ==
    /\ Dispatching
    /\ IF editor.cursor_position.x > 0 \/ editor.cursor_position.y > 0
       THEN LET e == MoveCursor(editor, Doc, "Left")
            IN /\ SetDoc(DocumentDelete(Doc, e.cursor_position))
               /\ editor' = ResetQuitTimes(e)
       ELSE /\ SetDoc(Doc)
            /\ editor' = ResetQuitTimes(editor)
    /\ quits' = 0
    /\ last' = Key("Backspace")
    /\ written' = NoFile
    /\ UNCHANGED <<rowVars, findVars, loop>>

\* Key::Up, Down, Left, Right, PageUp, PageDown, End, Home
KeyMove ==
    /\ Dispatching
    /\ \E key \in MoveKeys :
        editor' = ResetQuitTimes(MoveCursor(editor, Doc, key))
    /\ quits' = 0
    /\ last' = Key("Move")
    /\ written' = NoFile
    /\ UNCHANGED <<rows, file_name, dirty, file_type, rowVars, findVars, loop>>

\* any other key: the arm `_ => ()`
KeyOther ==
    /\ Dispatching
    /\ editor' = ResetQuitTimes(editor)
    /\ quits' = 0
    /\ last' = Key("Other")
    /\ written' = NoFile
    /\ UNCHANGED <<rows, file_name, dirty, file_type, rowVars, findVars, loop>>

\* Key::Ctrl('s'), Editor::save: the "Save as" prompt when the document has
\* no name (aborted, or answered with a name), then Document::save, whose
\* File::create fails or which gets through `done` of its writes
KeyCtrlS ==
    /\ Dispatching
    /\ \/ /\ file_name = NoName
          /\ written' = NoFile
          /\ UNCHANGED <<rows, file_name, dirty, file_type>>
       \/ \E name \in IF file_name = NoName THEN Paths ELSE {file_name} :
            LET d == [Doc EXCEPT !.file_name = name]
            IN \/ /\ SetDoc(d)
                  /\ written' = NoFile
               \/ \E done \in 0..(2 * Len(rows)) :
                     /\ SetDoc(DocumentSave(d, done))
                     /\ written' = SavedFile(d, done)
    /\ editor' = ResetQuitTimes(editor)
    /\ quits' = 0
    /\ last' = Key("Ctrl-S")
    /\ UNCHANGED <<rowVars, findVars, loop>>

\* Key::Ctrl('f'), Editor::search: the prompt opens
KeyCtrlF ==
    /\ Dispatching
    /\ editor' = [editor EXCEPT !.prompt = "search",
                                !.result = <<>>,
                                !.old_position = editor.cursor_position]
    /\ quits' = 0
    /\ last' = Key("Ctrl-F")
    /\ written' = NoFile
    /\ UNCHANGED <<rows, file_name, dirty, file_type, rowVars, findVars, loop>>

\* the prompt reads a char that is not a control char (the queries of the
\* model are of one char), or Backspace, and runs the callback
PromptEdit ==
    /\ Prompting
    /\ \E result \in {Append(editor.result, c) :
                         c \in IF editor.result = <<>>
                               THEN PromptChars ELSE {}}
                     \cup {Take(editor.result, Len(editor.result) - 1)} :
        editor' = SearchCallback([editor EXCEPT !.result = result], Doc,
                                 "Char", result)
    /\ last' = Key("Prompt")
    /\ written' = NoFile
    /\ UNCHANGED <<rows, file_name, dirty, file_type, quits, rowVars, findVars, loop>>

\* the prompt reads an arrow key, or any other key it has no arm for, and
\* runs the callback
PromptNavigate ==
    /\ Prompting
    /\ \E key \in {"Up", "Down", "Left", "Right", "Other"} :
        editor' = SearchCallback(editor, Doc, key, editor.result)
    /\ last' = Key("Prompt")
    /\ written' = NoFile
    /\ UNCHANGED <<rows, file_name, dirty, file_type, quits, rowVars, findVars, loop>>

\* the prompt reads Enter, or Esc, which empties the result
PromptEnds ==
    /\ Prompting
    /\ \E result \in {editor.result, <<>>} :
        editor' = SearchEnds(editor, result)
    /\ last' = Key("Prompt")
    /\ written' = NoFile
    /\ UNCHANGED <<rows, file_name, dirty, file_type, quits, rowVars, findVars, loop>>

NextEditor ==
    \/ KeyCtrlQ
    \/ KeyChar
    \/ KeyDelete
    \/ KeyBackspace
    \/ KeyMove
    \/ KeyOther
    \/ KeyCtrlS
    \/ KeyCtrlF
    \/ PromptEdit
    \/ PromptNavigate
    \/ PromptEnds

SpecEditor == InitEditor /\ [][NextEditor]_vars

\* C22: in the key dispatch, while the document is dirty, should_quit becomes
\* true only on a Ctrl-Q that comes right after QUIT_TIMES Ctrl-Q presses in
\* a row; each of those presses only decrements quit_times; any other key
\* the dispatch handles puts quit_times back to QUIT_TIMES; when the
\* document is not dirty a single Ctrl-Q sets should_quit.
C22_QuitProtocol ==
    [][/\ (editor'.should_quit /\ ~editor.should_quit) =>
              /\ last'.op = "Ctrl-Q"
              /\ dirty => quits = QUIT_TIMES
       /\ (last'.op = "Ctrl-Q" /\ dirty /\ quits < QUIT_TIMES) =>
              /\ editor' = [editor EXCEPT !.quit_times = QUIT_TIMES - quits - 1]
              /\ Doc' = Doc
       /\ (last'.op \notin {"Ctrl-Q", "Prompt"} /\ editor'.prompt = "none") =>
              editor'.quit_times = QUIT_TIMES
       /\ (last'.op = "Ctrl-Q" /\ ~dirty) => editor'.should_quit]_vars

\* the editor has quit a dirty document on the Ctrl-Q after QUIT_TIMES
\* presses that warned
C22_Witness ==
    /\ editor.should_quit
    /\ dirty
    /\ quits = QUIT_TIMES + 1
    /\ last.op = "Ctrl-Q"

\* C23: after every key the editor processes the cursor is in bounds: its y
\* is at most the number of rows, its x at most the length of row y, 0 when
\* y addresses no row.
C23_CursorInBounds ==
    /\ editor.cursor_position.y <= Len(rows)
    /\ editor.cursor_position.x <= WidthAt(Doc, editor.cursor_position.y)

-----------------------------------------------------------------------------
(* Row::highlight, one loop iteration at a time: SpecLoop *)

\* a search word longer than every row built from RowChars
LongWord == [i \in 1..(MaxChars + 1) |-> "1"]

\* row.highlight(opts, word) is called on a Row made from a string
InitLoop ==
    /\ rows = <<>> /\ file_name = NoName /\ dirty = FALSE
    /\ file_type = DefaultFileType
    /\ written = NoFile
    /\ last = [op |-> "default", ok |-> TRUE, was_dirty |-> FALSE,
               at |-> NoPos, c |-> NoChar]
    /\ IdleEditor
    /\ found = NoSearches /\ first = NoCall
    /\ row \in {RowFrom(s) : s \in RowStrings}
    /\ row0 = row /\ other = RowDefault /\ hist = <<>>
    /\ query \in Words \cup {LongWord}
    /\ \E numbers \in BOOLEAN :
          loop = HighlightCalled(row, [DefaultHighLightingOptions
                                         EXCEPT !.numbers = numbers], query)

\* the match the first loop's condition finds, None when it ends the loop:
\* self.find(word, search_index, Forward), None when search_index > len
SearchMatch ==
    IF loop.search_index \in DOMAIN loop.find
    THEN loop.find[loop.search_index]
    ELSE None

\* an iteration of the first loop: the match is recorded
CollectStep ==
    /\ loop.pc = "collect"
    /\ SearchMatch # None
    /\ loop' = [loop EXCEPT !.matches = @ \cup {SearchMatch},
                            !.search_index = NextSearchIndex(SearchMatch, loop.word_len)]
    /\ UNCHANGED <<docVars, rowVars, findVars, editorVars>>

\* the first loop ends: there is no word, or no further match
CollectEnds ==
    /\ loop.pc = "collect"
    /\ SearchMatch = None
    /\ loop' = [loop EXCEPT !.pc = "walk"]
    /\ UNCHANGED <<docVars, rowVars, findVars, editorVars>>

\* an iteration of the second loop, at a recorded match: one Match tag and
\* one index step per grapheme of the word
WalkMatch ==
    /\ loop.pc = "walk"
    /\ loop.index < Len(row.string)
    /\ query # NoWord /\ loop.index \in loop.matches
    /\ loop' = [loop EXCEPT !.index = @ + loop.word_len,
                            !.highlighting =
                                @ \o [i \in 1..loop.word_len |-> HlMatch]]
    /\ UNCHANGED <<docVars, rowVars, findVars, editorVars>>

\* an iteration of the second loop, at a char outside the recorded matches
WalkChar ==
    /\ loop.pc = "walk"
    /\ loop.index < Len(row.string)
    /\ ~(query # NoWord /\ loop.index \in loop.matches)
    /\ LET c == row.string[loop.index + 1]
           previous_highlight ==
               IF loop.index > 0 /\ loop.index <= Len(loop.highlighting)
               THEN loop.highlighting[loop.index] ELSE HlNone
       IN loop' = [loop EXCEPT
                      !.highlighting =
                          Append(@, LexicalTag(loop.opts, c, loop.prev_is_separator,
                                               previous_highlight)),
                      !.prev_is_separator =
                          IsAsciiPunctuation(c) \/ IsAsciiWhitespace(c),
                      !.index = @ + 1]
    /\ UNCHANGED <<docVars, rowVars, findVars, editorVars>>

\* the second loop ends: self.highlighting = highlighting
WalkEnds ==
    /\ loop.pc = "walk"
    /\ loop.index >= Len(row.string)
    /\ row' = [row EXCEPT !.highlighting = loop.highlighting]
    /\ loop' = [loop EXCEPT !.pc = "done"]
    /\ UNCHANGED <<docVars, other, row0, hist, findVars, editorVars>>

NextLoop ==
    \/ CollectStep
    \/ CollectEnds
    \/ WalkMatch
    \/ WalkChar
    \/ WalkEnds

SpecLoop == InitLoop /\ [][NextLoop]_vars

\* the call keeps running until it returns
SpecLoopFair == SpecLoop /\ WF_vars(NextLoop)

\* the tags the call has returned are those of Row::highlight as a function
LoopAgrees ==
    loop.pc = "done" => row.highlighting = Highlighting(row0, loop.opts, query)

\* C24: Row.highlight terminates for every row content and every search
\* word, the empty word and a word longer than the row included: the match
\* loop strictly advances its search index on each recorded match and stops
\* once the index is past the row's length, and the tagging walk strictly
\* advances its index on every step.
C24_HighlightTerminates ==
    /\ <>(loop.pc = "done")
    /\ [][/\ (loop.pc = "collect" /\ loop'.pc = "collect")
                => loop'.search_index > loop.search_index
          /\ (loop.pc = "collect" /\ loop.search_index > RowLen(row))
                => loop'.pc = "walk"
          /\ (loop.pc = "walk" /\ loop'.pc = "walk")
                => loop'.index > loop.index]_vars

\* a call that recorded two matches of its word has returned
C24_Witness ==
    /\ loop.pc = "done"
    /\ Cardinality(loop.matches) = 2

====
